---- MODULE Spec2Model ----
(***************************************************************************)
(* Model of the company-to-opportunity matching pipeline of                *)
(* src/src/matching/opportunity_matcher.py (class OpportunityMatcher):     *)
(* analyze_company_profile, score_opportunity_relevance and                *)
(* find_matches_for_company; and of the credit accounts of                 *)
(* src/src/opportunities/demo_opportunities.py (class CreditManager).      *)
(*                                                                         *)
(* Conventions.                                                            *)
(*  - A relevance score is an integer number of hundredths: 0.6 is 60,     *)
(*    1.0 is 100, -3 is -300.  A float NaN is the value JNaN.              *)
(*  - A Python/JSON value is a record [t, n, s]: t its type, n its number  *)
(*    (t = "num" a float, t = "int" an int, t = "bool" a bool, which in    *)
(*    Python is the int 1 or 0; all in hundredths), s its                  *)
(*    text (for t = "str").  t = "absent" stands for a key that a dict     *)
(*    does not hold.                                                       *)
(*  - A Python dict is a function from its keys to such values.            *)
(*  - The two oracles (the chat-completion calls) are black boxes: what a  *)
(*    call does is an input of the step that makes the call.               *)
(*  - Match.created_at (datetime.now()) is not modelled; no code reads it. *)
(***************************************************************************)
EXTENDS Integers, Sequences, FiniteSets, TLC

VARIABLES
    pc,                 \* position of the run of find_matches_for_company
    profile,            \* its argument profile
    opportunities,      \* its argument opportunities (the catalog)
    min_score,          \* its argument min_score, in hundredths
    company_analysis,   \* local company_analysis (line 191)
    idx,                \* number of opportunities the for loop has taken
    matches,            \* local matches (line 193); the returned list at the end
    scored,             \* history: one entry per call of score_opportunity_relevance
    error,              \* the exception that left find_matches_for_company, or ""
    oracle,             \* the oracle calls of the run: the one outstanding, their numbers
    scorer,             \* a direct call of score_opportunity_relevance
    analyzer,           \* a direct call of analyze_company_profile
    analysis_answer,    \* history: what the analysis oracle did in the run
    previous,           \* history: the run remembered in a series on one matcher
    user_accounts,      \* CreditManager.user_accounts
    now,                \* the clock datetime.now() reads
    credit              \* history: the last call made on the CreditManager

vars == <<pc, profile, opportunities, min_score, company_analysis, idx,
          matches, scored, error, oracle, scorer, analyzer, analysis_answer,
          previous, user_accounts, now, credit>>

\* the variables of the matching pipeline and those of the credit accounts
matcherVars == <<pc, profile, opportunities, min_score, company_analysis, idx,
                 matches, scored, error, oracle, scorer, analyzer, analysis_answer,
                 previous>>
creditVars == <<user_accounts, now, credit>>

----------------------------------------------------------------------------
(* Bounds of the model *)

\* longest catalog handed to find_matches_for_company
MaxCatalog == 3

\* longest catalog handed to find_matches_for_company in a series of runs on
\* one matcher
MaxSeriesCatalog == 2

\* number of calls made on one CreditManager
MaxClock == 5

----------------------------------------------------------------------------
(* Python and JSON values *)

JAbsent == [t |-> "absent", n |-> 0, s |-> ""]
JNull == [t |-> "null", n |-> 0, s |-> ""]
JNaN == [t |-> "nan", n |-> 0, s |-> ""]
\* a list whose items are all strs (the empty list included)
JList == [t |-> "list", n |-> 0, s |-> ""]
\* a list whose first item that is no str is item number i, of the type named
JListWith(i, type) == [t |-> "list", n |-> i, s |-> type]
JNum(n) == [t |-> "num", n |-> n, s |-> ""]
JInt(n) == [t |-> "int", n |-> n, s |-> ""]
JBool(b) == [t |-> "bool", n |-> IF b THEN 100 ELSE 0, s |-> ""]
JStr(s) == [t |-> "str", n |-> 0, s |-> s]

\* type(v).__name__ as it appears in the text of a TypeError or AttributeError
TypeName(v) ==
    CASE v.t = "null" -> "NoneType"
      [] v.t = "str" -> "str"
      [] v.t = "list" -> "list"
      [] v.t = "dict" -> "dict"
      [] v.t = "int" -> "int"
      [] v.t = "bool" -> "bool"
      [] v.t \in {"num", "float", "nan"} -> "float"

EmptyDict == [k \in {} |-> JAbsent]

\* a parsed JSON document: an object (t = "dict", d its content) or another value
PyDict(d) == [t |-> "dict", d |-> d]
PyOther(t) == [t |-> t, d |-> EmptyDict]

\* dict.get(key, default)
Get(d, key, default) == IF key \in DOMAIN d THEN d[key] ELSE default

----------------------------------------------------------------------------
(* Python comparisons, min and max (line 169) *)

\* v is a float, an int or a bool (a subclass of int): min and max accept it
IsNumber(v) == v.t \in {"num", "int", "bool", "nan"}

\* v is a float, an int or a bool that is not NaN
IsOrdered(v) == v.t \in {"num", "int", "bool"}

\* a < b on numbers; every comparison with NaN is False
PyLt(a, b) == IsOrdered(a) /\ IsOrdered(b) /\ a.n < b.n

\* a >= b on numbers; every comparison with NaN is False
PyGe(a, b) == IsOrdered(a) /\ IsOrdered(b) /\ a.n >= b.n

\* min(a, b): the first argument unless the second is smaller
PyMin(a, b) == IF PyLt(b, a) THEN b ELSE a

\* max(a, b): the first argument unless the second is larger
PyMax(a, b) == IF PyLt(a, b) THEN b ELSE a

\* Clamp without its upper bound: max(0.0, raw)
ClampNoUpper(raw) == PyMax(JNum(0), raw)

\* max(0.0, min(1.0, raw)), for a raw score that is a number
Clamp(raw) == PyMax(JNum(0), PyMin(JNum(100), raw))

\* str(e) of the TypeError that min(1.0, raw) raises for a raw score that is no number
CompareError(raw) ==
    "'<' not supported between instances of '" \o TypeName(raw) \o "' and 'float'"

\* str(e) of the AttributeError of v.get(...) for a v that is no dict
NoGetError(v) == "'" \o TypeName(v) \o "' object has no attribute 'get'"

\* texts that json.loads rejects
BadTexts == {"not json", "{", "{'relevance_score': 0.9}", " ", "[1, 2", "{} extra"}

\* str(e) of the JSONDecodeError that json.loads(text) raises
JsonDecodeError(text) ==
    CASE text = "not json" -> "Expecting value: line 1 column 1 (char 0)"
      [] text = "{" ->
            "Expecting property name enclosed in double quotes: line 1 column 2 (char 1)"
      [] text = "{'relevance_score': 0.9}" ->
            "Expecting property name enclosed in double quotes: line 1 column 2 (char 1)"
      [] text = " " -> "Expecting value: line 1 column 2 (char 1)"
      [] text = "[1, 2" -> "Expecting ',' delimiter: line 1 column 6 (char 5)"
      [] text = "{} extra" -> "Extra data: line 1 column 4 (char 3)"

----------------------------------------------------------------------------
(* What an oracle call does: client.chat.completions.create(...) and the    *)
(* content of its first choice.                                            *)
(*   kind "raise"   the call raises an Exception whose text is msg         *)
(*   kind "none"    message.content is None                                *)
(*   kind "empty"   message.content is ""                                  *)
(*   kind "badjson" message.content is the text msg, which json.loads      *)
(*                  rejects                                                *)
(*   kind "json"    message.content is JSON; doc is what json.loads gives  *)

Raises(msg) == [kind |-> "raise", msg |-> msg, doc |-> PyOther("null")]
Content(kind) == [kind |-> kind, msg |-> "", doc |-> PyOther("null")]
BadJson(text) == [kind |-> "badjson", msg |-> text, doc |-> PyOther("null")]
Json(doc) == [kind |-> "json", msg |-> "", doc |-> doc]

ConnectionError == "Connection error."
TimeoutError == "Request timed out."

----------------------------------------------------------------------------
(* Profiles *)

\* the attributes analyze_company_profile reads, in the order it reads them
ProfileAttrs == <<"company_name", "industry", "business_type", "company_size",
                  "description", "services", "target_markets", "key_challenges">>

\* the attributes it passes to ', '.join
JoinedAttrs == {"services", "target_markets", "key_challenges"}

\* an object with the eight attributes of the prompt
CompanyProfile(name, industry) ==
    [cls |-> "CompanyProfile",
     attrs |-> [company_name |-> JStr(name), industry |-> JStr(industry),
                business_type |-> JStr("B2B"), company_size |-> JStr("small"),
                description |-> JStr("software"), services |-> JList,
                target_markets |-> JList, key_challenges |-> JList]]

\* an instance of the dataclass BusinessProfile: of the eight attributes it
\* has company_name, industry and target_markets only
BusinessProfile(name, industry) ==
    [cls |-> "BusinessProfile",
     attrs |-> [company_name |-> JStr(name), industry |-> JStr(industry),
                target_markets |-> JList]]

\* ', '.join(v) raises: v is not iterable, or it is a list with an item that
\* is no str (a str joins its characters)
JoinFails(v) ==
    CASE v.t = "str" -> FALSE
      [] v.t = "list" -> v.s # ""
      [] v.t \in {"absent", "null", "nan", "num", "int", "bool"} -> TRUE

\* str(e) of the TypeError that ', '.join(v) raises
JoinError(v) ==
    IF v.t = "list"
    THEN "sequence item " \o ToString(v.n) \o ": expected str instance, "
         \o v.s \o " found"
    ELSE "can only join an iterable"

\* reading attribute number k for the prompt raises (lines 51-58)
AttrFails(p, k) ==
    LET a == ProfileAttrs[k] IN
    \/ a \notin DOMAIN p.attrs
    \/ a \in JoinedAttrs /\ JoinFails(p.attrs[a])

AttrError(p, k) ==
    LET a == ProfileAttrs[k] IN
    IF a \notin DOMAIN p.attrs
    THEN "'" \o p.cls \o "' object has no attribute '" \o a \o "'"
    ELSE JoinError(p.attrs[a])

FailingAttrs(p) == {k \in 1..Len(ProfileAttrs) : AttrFails(p, k)}

FirstFailingAttr(p) ==
    CHOOSE k \in FailingAttrs(p) : \A j \in FailingAttrs(p) : k <= j

----------------------------------------------------------------------------
(* analyze_company_profile *)

\* the dict of the except branch (lines 101-105)
AnalysisFallback(p, msg) ==
    PyDict([industry_focus |-> p.attrs.industry,
            business_stage |-> JStr("unknown"),
            error |-> JStr(msg)])

\* the dict for a response without content (line 95)
AnalysisNoContent ==
    PyDict([industry_focus |-> JStr("Unknown"), business_stage |-> JStr("Unknown")])

\* analyze_company_profile(profile) when the analysis oracle does resp:
\* outcome "return" with the value returned, or outcome "raise" with str(e)
AnalyzeCompanyProfile(p, resp) ==
    IF FailingAttrs(p) # {}
    THEN [outcome |-> "raise", value |-> PyOther("null"),
          error |-> AttrError(p, FirstFailingAttr(p))]
    ELSE [outcome |-> "return",
          value |-> CASE resp.kind = "raise" -> AnalysisFallback(p, resp.msg)
                      [] resp.kind \in {"none", "empty"} -> AnalysisNoContent
                      [] resp.kind = "badjson" ->
                            AnalysisFallback(p, JsonDecodeError(resp.msg))
                      [] OTHER -> resp.doc,
          error |-> ""]

----------------------------------------------------------------------------
(* Match and score_opportunity_relevance *)

\* a Match created as already accepted
MatchAccepted(company_id, opportunity_id, relevance_score, reasoning) ==
    [company_id |-> company_id, opportunity_id |-> opportunity_id,
     relevance_score |-> relevance_score, reasoning |-> reasoning,
     match_status |-> "accepted"]

Match(company_id, opportunity_id, relevance_score, reasoning) ==
    [company_id |-> company_id, opportunity_id |-> opportunity_id,
     relevance_score |-> relevance_score, reasoning |-> reasoning,
     match_status |-> "pending"]

NoMatch == Match(JNull, "", JNull, JNull)

\* the dict for a response without content (line 164)
ScoringNoContent ==
    PyDict([relevance_score |-> JNum(0), reasoning |-> JStr("No analysis available")])

\* the Match of the except branch with the bare str(e) as its reasoning
FailureMatchBareCause(opportunity, msg) ==
    Match(JStr("placeholder"), opportunity.id, JNum(0), JStr(msg))

\* the Match of the except branch (lines 179-185)
FailureMatch(opportunity, msg) ==
    Match(JStr("placeholder"), opportunity.id, JNum(0),
          JStr("Analysis unavailable: " \o msg))

\* lines 166-172, for the parsed scoring document
MatchOfScoring(opportunity, scoring) ==
    IF scoring.t # "dict"
    THEN FailureMatch(opportunity, NoGetError(scoring))
    ELSE LET raw == Get(scoring.d, "relevance_score", JNum(0)) IN
         IF ~IsNumber(raw)
         THEN FailureMatch(opportunity, CompareError(raw))
         ELSE Match(JStr("placeholder"), opportunity.id, Clamp(raw),
                    Get(scoring.d, "reasoning", JStr("AI analysis completed")))

\* score_opportunity_relevance(company_analysis, opportunity) when the scoring
\* oracle does resp: outcome "return" with the Match, or outcome "raise" with
\* str(e).  The prompt (lines 111-144) is built before the try block, by
\* company_analysis.get(...): for a company_analysis that is no dict the call
\* raises before the oracle is called (oracle_called is FALSE).
ScoreOpportunityRelevance(analysis, opportunity, resp) ==
    IF analysis.t # "dict"
    THEN [outcome |-> "raise", oracle_called |-> FALSE, match |-> NoMatch,
          error |-> NoGetError(analysis)]
    ELSE [outcome |-> "return", oracle_called |-> TRUE,
          match |-> CASE resp.kind = "raise" -> FailureMatch(opportunity, resp.msg)
                      [] resp.kind \in {"none", "empty"} ->
                            MatchOfScoring(opportunity, ScoringNoContent)
                      [] resp.kind = "badjson" ->
                            FailureMatch(opportunity, JsonDecodeError(resp.msg))
                      [] OTHER -> MatchOfScoring(opportunity, resp.doc),
          error |-> ""]

----------------------------------------------------------------------------
(* The threshold filter and the sort of find_matches_for_company *)

\* the test of line 198 with > for >=
KeepsAbove(m, threshold) == PyLt(JNum(threshold), m.relevance_score)

\* line 198
Keeps(m, threshold) == PyGe(m.relevance_score, JNum(threshold))

\* the append without the test of line 198
AppendAlways(ms, m, threshold) == Append(ms, m)

\* the append under the negated test
AppendIfBelow(ms, m, threshold) == IF Keeps(m, threshold) THEN ms ELSE Append(ms, m)

\* the Match written over the last entry of the list instead of after it
AppendOverLast(ms, m, threshold) ==
    IF ~Keeps(m, threshold) THEN ms
    ELSE IF ms = <<>> THEN <<m>>
    ELSE [ms EXCEPT ![Len(ms)] = m]

\* the list after matches.append(match) under the test of line 198
AppendIfRelevant(ms, m, threshold) == IF Keeps(m, threshold) THEN Append(ms, m) ELSE ms

\* m inserted into the descending list ms before the entries that are not larger
InsertDescBeforeEqual(ms, m) ==
    LET notLarger == {j \in 1..Len(ms) :
                         ~PyLt(m.relevance_score, ms[j].relevance_score)}
        at == IF notLarger = {} THEN Len(ms) + 1
              ELSE CHOOSE j \in notLarger : \A k \in notLarger : j <= k
    IN SubSeq(ms, 1, at - 1) \o <<m>> \o SubSeq(ms, at, Len(ms))

\* m inserted into the descending list ms behind every entry that is not smaller
InsertDesc(ms, m) ==
    LET smaller == {j \in 1..Len(ms) : PyLt(ms[j].relevance_score, m.relevance_score)}
        at == IF smaller = {} THEN Len(ms) + 1
              ELSE CHOOSE j \in smaller : \A k \in smaller : j <= k
    IN SubSeq(ms, 1, at - 1) \o <<m>> \o SubSeq(ms, at, Len(ms))

\* the sort left out
NoSort(ms) == ms

\* m inserted into the ascending list ms behind every entry that is not larger
InsertAsc(ms, m) ==
    LET larger == {j \in 1..Len(ms) : PyLt(m.relevance_score, ms[j].relevance_score)}
        at == IF larger = {} THEN Len(ms) + 1
              ELSE CHOOSE j \in larger : \A k \in larger : j <= k
    IN SubSeq(ms, 1, at - 1) \o <<m>> \o SubSeq(ms, at, Len(ms))

RECURSIVE SortAsc(_)
SortAsc(ms) ==
    IF ms = <<>> THEN <<>>
    ELSE InsertAsc(SortAsc(SubSeq(ms, 1, Len(ms) - 1)), ms[Len(ms)])

\* a stable ascending sort followed by a reversal of the list
SortAscThenReverse(ms) ==
    LET a == SortAsc(ms) IN [j \in 1..Len(a) |-> a[Len(a) + 1 - j]]

RECURSIVE SortByScoreDesc(_)
\* line 202: matches.sort(key=relevance_score, reverse=True), a stable sort
SortByScoreDesc(ms) ==
    IF ms = <<>> THEN <<>>
    ELSE InsertDesc(SortByScoreDesc(SubSeq(ms, 1, Len(ms) - 1)), ms[Len(ms)])

RECURSIVE FilterRelevant(_, _)
\* lines 193-199 over a list of Matches: the Matches the test of line 198 keeps
FilterRelevant(ms, threshold) ==
    IF ms = <<>> THEN <<>>
    ELSE AppendIfRelevant(FilterRelevant(SubSeq(ms, 1, Len(ms) - 1), threshold),
                          ms[Len(ms)], threshold)

\* the Match Ranker step: the filter of line 198, then the sort of line 202
RankMatches(ms, threshold) == SortByScoreDesc(FilterRelevant(ms, threshold))

----------------------------------------------------------------------------
(* Inputs of the runs *)

Opportunity(k) == [id |-> "opp" \o ToString(k), title |-> "title " \o ToString(k)]

\* the catalog of n opportunities
Catalog(n) == [k \in 1..n |-> Opportunity(k)]

Profiles == {CompanyProfile("Acme", "technology software"),
             BusinessProfile("Acme", "technology software")}

\* a profile whose texts and lists are empty
EmptyProfile ==
    [cls |-> "CompanyProfile",
     attrs |-> [company_name |-> JStr(""), industry |-> JStr(""),
                business_type |-> JStr(""), company_size |-> JStr(""),
                description |-> JStr(""), services |-> JList,
                target_markets |-> JList, key_challenges |-> JList]]

\* a profile whose fields are None
NoneProfile ==
    [cls |-> "CompanyProfile",
     attrs |-> [company_name |-> JNull, industry |-> JNull,
                business_type |-> JNull, company_size |-> JNull,
                description |-> JNull, services |-> JNull,
                target_markets |-> JNull, key_challenges |-> JNull]]

\* a profile without the attributes description and key_challenges
SparseProfile ==
    [cls |-> "CompanyProfile",
     attrs |-> [company_name |-> JStr("Acme"), industry |-> JStr("retail"),
                business_type |-> JStr("B2C"), company_size |-> JStr("small"),
                services |-> JList, target_markets |-> JList]]

\* a profile whose services is True in the place of a list
FlagProfile ==
    [CompanyProfile("Acme", "technology software") EXCEPT !.attrs.services = JBool(TRUE)]

\* a profile whose services is [1, 2]
NumbersProfile ==
    [CompanyProfile("Acme", "technology software") EXCEPT
        !.attrs.services = JListWith(0, "int")]

\* a profile whose key_challenges is ['x', None]
MixedProfile ==
    [CompanyProfile("Acme", "technology software") EXCEPT
        !.attrs.key_challenges = JListWith(1, "NoneType")]

\* the profiles handed to analyze_company_profile
AnalyzerProfiles ==
    Profiles \cup {EmptyProfile, NoneProfile, SparseProfile, FlagProfile,
                   NumbersProfile, MixedProfile}

\* values of min_score, in hundredths; 60 is the default of line 188
Thresholds == {0, 60, 90}

FullAnalysis ==
    [industry_focus |-> JStr("technology software"), business_stage |-> JStr("growth"),
     target_customers |-> JList, growth_priorities |-> JList,
     technology_adoption |-> JStr("high"), geographic_scope |-> JStr("national"),
     key_capabilities |-> JList, partnership_interests |-> JList]

PartialAnalysis ==
    [industry_focus |-> JStr("technology software"), business_stage |-> JNull]

\* what the analysis oracle may do
AnalysisResponses ==
    {Raises(ConnectionError), Raises(TimeoutError),
     Content("none"), Content("empty"),
     Json(PyOther("list")), Json(PyOther("null")), Json(PyOther("str")),
     Json(PyOther("int")), Json(PyOther("float")), Json(PyOther("bool")),
     Json(PyDict(FullAnalysis)), Json(PyDict(PartialAnalysis)), Json(PyDict(EmptyDict))}
    \cup {BadJson(text) : text \in BadTexts}

\* the raw scores of a scoring document: numbers inside, on the edges of and
\* outside the range, NaN, and values that are no numbers
RawNumbers == {-300, -1, 0, 10, 20, 30, 50, 59, 60, 75, 80, 90, 100, 101, 150}

\* raw scores that JSON wrote as integers: -3, 0, 1, 5
RawIntegers == {-300, 0, 100, 500}

RawScores ==
    {JNum(n) : n \in RawNumbers} \cup {JInt(n) : n \in RawIntegers}
    \cup {JBool(TRUE), JBool(FALSE)}
    \cup {JNaN, JNull, JStr("NaN"), JStr("0.9"), JList}

Reasonings == {JStr("good fit"), JStr(""), JNull}

ScoringDocs ==
    {[relevance_score |-> r, reasoning |-> t] : r \in RawScores, t \in Reasonings}
    \cup {[relevance_score |-> r] : r \in RawScores}
    \cup {[reasoning |-> t] : t \in Reasonings}
    \cup {EmptyDict}

\* what the scoring oracle may do
ScoringResponses ==
    {Raises(ConnectionError), Raises(TimeoutError),
     Content("none"), Content("empty"),
     Json(PyOther("list")), Json(PyOther("null")), Json(PyOther("str")),
     Json(PyOther("int")), Json(PyOther("float")), Json(PyOther("bool"))}
    \cup {BadJson(text) : text \in BadTexts}
    \cup {Json(PyDict(d)) : d \in ScoringDocs}

\* the characterizations analyze_company_profile can return
Characterizations ==
    {AnalyzeCompanyProfile(p, r).value : p \in {CompanyProfile("Acme", "technology software")},
                                         r \in AnalysisResponses}

\* what the oracles do in the runs of find_matches_for_company
RunAnalysisResponses ==
    {Raises(ConnectionError), Content("empty"), Json(PyOther("list")),
     Json(PyOther("int")), Json(PyDict(FullAnalysis))}

RunScores == {10, 20, 30, 50, 60, 75, 80, 90, 150}

RunScoringResponses ==
    {Raises(TimeoutError), Content("empty"), BadJson("{"),
     Json(PyDict([reasoning |-> JStr("good fit")])),
     Json(PyDict([relevance_score |-> JNaN, reasoning |-> JStr("good fit")]))}
    \cup {Json(PyDict([relevance_score |-> JNum(n), reasoning |-> JStr("good fit")])) :
             n \in RunScores}

\* what the oracles do in the runs of a series made on one matcher
SeriesAnalysisResponses ==
    {Raises(ConnectionError), Json(PyOther("list")), Json(PyDict(FullAnalysis))}

SeriesScoringResponses ==
    {Raises(TimeoutError),
     Json(PyDict([relevance_score |-> JNum(90), reasoning |-> JStr("good fit")]))}

----------------------------------------------------------------------------
(* The state machine *)

NoProfile == [cls |-> "", attrs |-> EmptyDict]
NoAnalysis == PyOther("unset")
NoCall == [stage |-> "none", company_analysis |-> NoAnalysis,
           opportunity |-> Opportunity(0), response |-> Content("none"),
           oracle_called |-> FALSE, match |-> NoMatch, error |-> ""]
NoAnalyzerCall == [stage |-> "none", profile |-> NoProfile,
                   response |-> Content("none"), value |-> NoAnalysis, error |-> ""]
NoOracleCalls == [outstanding |-> "none", analysis |-> 0, scoring |-> 0]
NoAnswer == [kind |-> "unset", msg |-> "", doc |-> NoAnalysis]
\* no run of a series is remembered yet.  In a series of runs on one matcher
\* (series) one ended run is remembered for comparison (set) with its
\* arguments, the responses of the oracles and its outcome; before: runs were
\* made on the matcher before it, between: a run with other arguments or
\* other responses was made after it and before the run in progress.
NoPrevious == [set |-> FALSE, series |-> FALSE, before |-> FALSE, between |-> FALSE,
               profile |-> NoProfile, opportunities |-> <<>>, min_score |-> 0,
               pc |-> "", analysis |-> NoAnswer, responses |-> <<>>,
               matches |-> <<>>, error |-> ""]
NoCreditCall == [op |-> "none", user_id |-> "", action |-> "", result |-> FALSE,
                 before |-> EmptyDict]

\* what the analysis oracle may do in the run
AnalysisAnswers ==
    IF previous.series THEN SeriesAnalysisResponses ELSE RunAnalysisResponses

\* what the scoring oracle may do for the next opportunity
ScoringAnswers ==
    IF previous.series THEN SeriesScoringResponses ELSE RunScoringResponses

Init ==
    /\ pc = "idle"
    /\ profile = NoProfile
    /\ opportunities = <<>>
    /\ min_score = 60
    /\ company_analysis = NoAnalysis
    /\ idx = 0
    /\ matches = <<>>
    /\ scored = <<>>
    /\ error = ""
    /\ oracle = NoOracleCalls
    /\ scorer = NoCall
    /\ analyzer = NoAnalyzerCall
    /\ analysis_answer = NoAnswer
    /\ previous = NoPrevious
    /\ user_accounts = EmptyDict
    /\ now = 0
    /\ credit = NoCreditCall

\* the Match as the scorer made it, its company id not assigned
KeepsPlaceholder(match, p) == match

\* line 196: match.company_id = profile.company_name
WithCompanyId(match, p) == [match EXCEPT !.company_id = p.attrs.company_name]

\* a caller calls find_matches_for_company(profile, opportunities, min_score)
FindMatchesForCompany ==
    /\ pc = "idle"
    /\ \E p \in Profiles, n \in 0..MaxCatalog, t \in Thresholds :
          /\ profile' = p
          /\ opportunities' = Catalog(n)
          /\ min_score' = t
    /\ pc' = "analyze"
    /\ UNCHANGED <<company_analysis, idx, matches, scored, error, oracle, scorer,
                   analyzer>>
    /\ UNCHANGED <<analysis_answer, previous>>
    /\ UNCHANGED creditVars

\* the analysis call made and not awaited: the loop starts at once
AnalyzeCallNotAwaited ==
    /\ pc = "analyze"
    /\ pc' = "loop"
    /\ oracle' = [oracle EXCEPT !.outstanding = "analysis", !.analysis = @ + 1]
    /\ UNCHANGED <<profile, opportunities, min_score, company_analysis, idx,
                   matches, scored, error, scorer, analyzer>>
    /\ UNCHANGED <<analysis_answer, previous>>
    /\ UNCHANGED creditVars

\* line 191, analyze_company_profile up to its oracle call (lines 50-89): the
\* prompt is built from the attributes of the profile, then the call is made
AnalyzeCall ==
    /\ pc = "analyze"
    /\ IF FailingAttrs(profile) # {}
       THEN /\ pc' = "raised"
            /\ error' = AttrError(profile, FirstFailingAttr(profile))
            /\ UNCHANGED oracle
       ELSE /\ pc' = "analyzing"
            /\ oracle' = [oracle EXCEPT !.outstanding = "analysis",
                                        !.analysis = @ + 1]
            /\ UNCHANGED error
    /\ UNCHANGED <<profile, opportunities, min_score, company_analysis, idx,
                   matches, scored, scorer, analyzer>>
    /\ UNCHANGED <<analysis_answer, previous>>
    /\ UNCHANGED creditVars

\* the accumulator kept from one run to the next (a list of the matcher in
\* the place of the local of line 193)
AnalyzeKeepingMatches ==
    /\ pc = "analyzing"
    /\ \E resp \in AnalysisAnswers :
          LET r == AnalyzeCompanyProfile(profile, resp) IN
          /\ analysis_answer' = resp
          /\ IF r.outcome = "raise"
             THEN /\ pc' = "raised"
                  /\ error' = r.error
                  /\ UNCHANGED company_analysis
             ELSE /\ pc' = "loop"
                  /\ company_analysis' = r.value
                  /\ UNCHANGED error
    /\ oracle' = [oracle EXCEPT !.outstanding = "none"]
    /\ UNCHANGED <<profile, opportunities, min_score, idx, matches, scored, scorer,
                   analyzer>>
    /\ UNCHANGED previous
    /\ UNCHANGED creditVars

\* line 191: the analysis oracle call ends and analyze_company_profile returns
\* company_analysis; line 193: matches = []
Analyze ==
    /\ pc = "analyzing"
    /\ \E resp \in AnalysisAnswers :
          LET r == AnalyzeCompanyProfile(profile, resp) IN
          /\ analysis_answer' = resp
          /\ IF r.outcome = "raise"
             THEN /\ pc' = "raised"
                  /\ error' = r.error
                  /\ UNCHANGED company_analysis
             ELSE /\ pc' = "loop"
                  /\ company_analysis' = r.value
                  /\ UNCHANGED error
    /\ oracle' = [oracle EXCEPT !.outstanding = "none"]
    /\ matches' = <<>>
    /\ UNCHANGED <<profile, opportunities, min_score, idx, scored, scorer, analyzer>>
    /\ UNCHANGED previous
    /\ UNCHANGED creditVars

\* the call made with the fields taken out of the characterization
\* (company_analysis.pop in the place of company_analysis.get)
ScoreCallTakingFields ==
    /\ pc = "loop"
    /\ idx < Len(opportunities)
    /\ IF company_analysis.t # "dict"
       THEN /\ pc' = "raised"
            /\ error' = NoGetError(company_analysis)
            /\ UNCHANGED <<oracle, company_analysis>>
       ELSE /\ pc' = "scoring"
            /\ oracle' = [oracle EXCEPT !.outstanding = "scoring",
                                        !.scoring = @ + 1]
            /\ company_analysis' =
                  PyDict([f \in DOMAIN company_analysis.d \ {"industry_focus"} |->
                             company_analysis.d[f]])
            /\ UNCHANGED error
    /\ UNCHANGED <<profile, opportunities, min_score, idx, matches, scored, scorer,
                   analyzer>>
    /\ UNCHANGED <<analysis_answer, previous>>
    /\ UNCHANGED creditVars

\* lines 194-195, score_opportunity_relevance up to its oracle call (lines
\* 111-158): the prompt is built by company_analysis.get, then the call is made
ScoreCall ==
    /\ pc = "loop"
    /\ idx < Len(opportunities)
    /\ IF company_analysis.t # "dict"
       THEN /\ pc' = "raised"
            /\ error' = NoGetError(company_analysis)
            /\ UNCHANGED oracle
       ELSE /\ pc' = "scoring"
            /\ oracle' = [oracle EXCEPT !.outstanding = "scoring",
                                        !.scoring = @ + 1]
            /\ UNCHANGED error
    /\ UNCHANGED <<profile, opportunities, min_score, company_analysis, idx,
                   matches, scored, scorer, analyzer>>
    /\ UNCHANGED <<analysis_answer, previous>>
    /\ UNCHANGED creditVars

\* the loop taking each opportunity out of the catalog it was handed
\* (opportunities.pop(0) in the place of the iteration)
ScoreNextTakingFromCatalog ==
    /\ pc = "scoring"
    /\ opportunities # <<>>
    /\ \E resp \in ScoringAnswers :
          LET opportunity == Head(opportunities)
              r == ScoreOpportunityRelevance(company_analysis, opportunity, resp)
              match == WithCompanyId(r.match, profile)
          IN /\ pc' = "loop"
             /\ opportunities' = Tail(opportunities)
             /\ scored' = Append(scored, [opportunity |-> opportunity,
                                          response |-> resp, match |-> match])
             /\ matches' = AppendIfRelevant(matches, match, min_score)
    /\ oracle' = [oracle EXCEPT !.outstanding = "none"]
    /\ UNCHANGED <<profile, min_score, company_analysis, idx, error, scorer,
                   analyzer>>
    /\ UNCHANGED <<analysis_answer, previous>>
    /\ UNCHANGED creditVars

\* lines 195-199: the scoring oracle call ends, score_opportunity_relevance
\* returns its Match (or raises), the Match gets its company id and is
\* appended when it passes the threshold
ScoreNext ==
    /\ pc = "scoring"
    /\ \E resp \in ScoringAnswers :
          LET opportunity == opportunities[idx + 1]
              r == ScoreOpportunityRelevance(company_analysis, opportunity, resp)
              match == WithCompanyId(r.match, profile)
          IN IF r.outcome = "raise"
             THEN /\ pc' = "raised"
                  /\ error' = r.error
                  /\ UNCHANGED <<idx, matches, scored>>
             ELSE /\ pc' = "loop"
                  /\ idx' = idx + 1
                  /\ scored' = Append(scored, [opportunity |-> opportunity,
                                               response |-> resp, match |-> match])
                  /\ matches' = AppendIfRelevant(matches, match, min_score)
                  /\ UNCHANGED error
    /\ oracle' = [oracle EXCEPT !.outstanding = "none"]
    /\ UNCHANGED <<profile, opportunities, min_score, company_analysis, scorer,
                   analyzer>>
    /\ UNCHANGED <<analysis_answer, previous>>
    /\ UNCHANGED creditVars

\* the sort and the return at any turn of the loop
SortAndReturnEarly ==
    /\ pc = "loop"
    /\ matches' = SortByScoreDesc(matches)
    /\ pc' = "returned"
    /\ UNCHANGED <<profile, opportunities, min_score, company_analysis, idx,
                   scored, error, oracle, scorer, analyzer>>
    /\ UNCHANGED <<analysis_answer, previous>>
    /\ UNCHANGED creditVars

\* lines 201-205: the sort and the return, once the loop has taken every opportunity
SortAndReturn ==
    /\ pc = "loop"
    /\ idx = Len(opportunities)
    /\ matches' = SortByScoreDesc(matches)
    /\ pc' = "returned"
    /\ UNCHANGED <<profile, opportunities, min_score, company_analysis, idx,
                   scored, error, oracle, scorer, analyzer>>
    /\ UNCHANGED <<analysis_answer, previous>>
    /\ UNCHANGED creditVars

\* a caller calls score_opportunity_relevance(company_analysis, opportunity)
\* itself.  Stages of the call: "called", "waiting" (its oracle call is
\* outstanding), "returned", "raised".
CallScorer ==
    /\ pc = "idle"
    /\ \E a \in Characterizations :
          scorer' = [NoCall EXCEPT !.stage = "called", !.company_analysis = a,
                                   !.opportunity = Opportunity(1)]
    /\ pc' = "direct"
    /\ UNCHANGED <<profile, opportunities, min_score, company_analysis, idx,
                   matches, scored, error, oracle, analyzer>>
    /\ UNCHANGED <<analysis_answer, previous>>
    /\ UNCHANGED creditVars

\* lines 111-158: the prompt is built by company_analysis.get, which raises
\* for a company_analysis that is no dict; then the oracle call is made and
\* the scorer waits for it
ScorerCallsOracle ==
    /\ pc = "direct"
    /\ scorer.stage = "called"
    /\ scorer' = IF scorer.company_analysis.t # "dict"
                 THEN [scorer EXCEPT !.stage = "raised",
                                     !.error = NoGetError(scorer.company_analysis)]
                 ELSE [scorer EXCEPT !.stage = "waiting", !.oracle_called = TRUE]
    /\ UNCHANGED <<pc, profile, opportunities, min_score, company_analysis, idx,
                   matches, scored, error, oracle, analyzer>>
    /\ UNCHANGED <<analysis_answer, previous>>
    /\ UNCHANGED creditVars

\* while the scorer waits, another thread of the caller writes to the
\* Opportunity object it was handed (a dataclass that is not frozen)
CallerChangesOpportunity ==
    /\ pc = "direct"
    /\ scorer.stage = "waiting"
    /\ scorer.opportunity.id = "opp1"
    /\ scorer' = [scorer EXCEPT !.opportunity.id = "opp2"]
    /\ UNCHANGED <<pc, profile, opportunities, min_score, company_analysis, idx,
                   matches, scored, error, oracle, analyzer>>
    /\ UNCHANGED <<analysis_answer, previous>>
    /\ UNCHANGED creditVars

\* lines 160-185: the oracle call ends; the Match is built from the answer
\* and from the opportunity as it is then (opportunity.id, lines 168, 180)
ScorerReturns ==
    /\ pc = "direct"
    /\ scorer.stage = "waiting"
    /\ \E resp \in ScoringResponses :
          LET r == ScoreOpportunityRelevance(scorer.company_analysis,
                                             scorer.opportunity, resp)
          IN scorer' = [scorer EXCEPT !.stage = "returned", !.response = resp,
                                      !.match = r.match]
    /\ UNCHANGED <<pc, profile, opportunities, min_score, company_analysis, idx,
                   matches, scored, error, oracle, analyzer>>
    /\ UNCHANGED <<analysis_answer, previous>>
    /\ UNCHANGED creditVars

\* a caller calls analyze_company_profile(profile) itself.  Stages as for
\* the scorer.
CallAnalyzer ==
    /\ pc = "idle"
    /\ \E p \in AnalyzerProfiles :
          analyzer' = [NoAnalyzerCall EXCEPT !.stage = "called", !.profile = p]
    /\ pc' = "direct"
    /\ UNCHANGED <<profile, opportunities, min_score, company_analysis, idx,
                   matches, scored, error, oracle, scorer>>
    /\ UNCHANGED <<analysis_answer, previous>>
    /\ UNCHANGED creditVars

\* lines 50-89: the profile text is built from the attributes of the
\* profile, outside the try block; then the oracle call is made and the
\* analyzer waits for it
AnalyzerCallsOracle ==
    /\ pc = "direct"
    /\ analyzer.stage = "called"
    /\ analyzer' = IF FailingAttrs(analyzer.profile) # {}
                   THEN [analyzer EXCEPT
                            !.stage = "raised",
                            !.value = PyOther("null"),
                            !.error = AttrError(analyzer.profile,
                                                FirstFailingAttr(analyzer.profile))]
                   ELSE [analyzer EXCEPT !.stage = "waiting"]
    /\ UNCHANGED <<pc, profile, opportunities, min_score, company_analysis, idx,
                   matches, scored, error, oracle, scorer>>
    /\ UNCHANGED <<analysis_answer, previous>>
    /\ UNCHANGED creditVars

\* while the analyzer waits, another thread of the caller writes to the
\* profile object it was handed
CallerChangesProfile ==
    /\ pc = "direct"
    /\ analyzer.stage = "waiting"
    /\ analyzer.profile.attrs.industry # JStr("retail")
    /\ analyzer' = [analyzer EXCEPT !.profile.attrs.industry = JStr("retail")]
    /\ UNCHANGED <<pc, profile, opportunities, min_score, company_analysis, idx,
                   matches, scored, error, oracle, scorer>>
    /\ UNCHANGED <<analysis_answer, previous>>
    /\ UNCHANGED creditVars

\* lines 91-105: the oracle call ends; the answer is parsed, or the fallback
\* is built from the profile as it is then (profile.industry, line 101)
AnalyzerReturns ==
    /\ pc = "direct"
    /\ analyzer.stage = "waiting"
    /\ \E resp \in AnalysisResponses :
          LET r == AnalyzeCompanyProfile(analyzer.profile, resp)
          IN analyzer' = [analyzer EXCEPT
                             !.stage = IF r.outcome = "raise" THEN "raised"
                                       ELSE "returned",
                             !.response = resp,
                             !.value = r.value, !.error = r.error]
    /\ UNCHANGED <<pc, profile, opportunities, min_score, company_analysis, idx,
                   matches, scored, error, oracle, scorer>>
    /\ UNCHANGED <<analysis_answer, previous>>
    /\ UNCHANGED creditVars

Next ==
    \/ FindMatchesForCompany
    \/ AnalyzeCall
    \/ Analyze
    \/ ScoreCall
    \/ ScoreNext
    \/ SortAndReturn
    \/ CallScorer
    \/ ScorerCallsOracle
    \/ CallerChangesOpportunity
    \/ ScorerReturns
    \/ CallAnalyzer
    \/ AnalyzerCallsOracle
    \/ CallerChangesProfile
    \/ AnalyzerReturns

Spec == Init /\ [][Next]_vars

\* the steps of a run that the interpreter takes by itself: the call of an
\* oracle once its prompt is built, and the sort and the return
InterpreterStep == AnalyzeCall \/ ScoreCall \/ SortAndReturn

\* a run whose next step is the interpreter's takes it.  The steps in which an
\* oracle call ends (Analyze, ScoreNext) are the client's: create() is called
\* without a timeout (lines 78-89, 147-158) on a client built without one
\* (line 45), so nothing in the code makes an outstanding call end.
SpecLive == Spec /\ WF_vars(InterpreterStep)

\* the responses of the scoring oracle in the run, in the order of the calls
Responses == [k \in 1..Len(scored) |-> scored[k].response]

\* the run that has ended got the arguments of the remembered run
SameArguments ==
    /\ profile = previous.profile
    /\ opportunities = previous.opportunities
    /\ min_score = previous.min_score

\* the oracles did in it what they did in the remembered run
SameResponses ==
    /\ analysis_answer = previous.analysis
    /\ Responses = previous.responses

\* the run that has ended, as it is remembered for comparison
Remembered ==
    [previous EXCEPT !.set = TRUE, !.profile = profile,
                     !.opportunities = opportunities, !.min_score = min_score,
                     !.pc = pc, !.analysis = analysis_answer,
                     !.responses = Responses, !.matches = matches,
                     !.error = error]

\* a caller makes one more call of find_matches_for_company on the same
\* OpportunityMatcher, the first or one after a run that has ended, with any
\* arguments.  The call has a frame of its own: company_analysis is not
\* bound and the iteration has not begun; the name matches is bound by line
\* 193.  The run that has just ended is remembered or not.
FindMatchesInSeries ==
    /\ pc \in {"idle", "returned", "raised"}
    /\ pc = "idle" => ~previous.series
    /\ pc # "idle" => previous.series
    /\ \E p \in Profiles, n \in 0..MaxSeriesCatalog, t \in Thresholds :
          /\ profile' = p
          /\ opportunities' = Catalog(n)
          /\ min_score' = t
    /\ \E remember \in BOOLEAN :
          previous' =
             IF pc = "idle" THEN [previous EXCEPT !.series = TRUE]
             ELSE IF previous.set
             THEN [previous EXCEPT
                      !.between = @ \/ ~(SameArguments /\ SameResponses)]
             ELSE IF remember THEN Remembered
             ELSE [previous EXCEPT !.before = TRUE]
    /\ pc' = "analyze"
    /\ company_analysis' = NoAnalysis
    /\ idx' = 0
    /\ scored' = <<>>
    /\ error' = ""
    /\ oracle' = NoOracleCalls
    /\ analysis_answer' = NoAnswer
    /\ UNCHANGED <<matches, scorer, analyzer>>
    /\ UNCHANGED creditVars

NextRuns ==
    \/ FindMatchesInSeries
    \/ AnalyzeCall
    \/ Analyze
    \/ ScoreCall
    \/ ScoreNext
    \/ SortAndReturn

\* one matcher used for a series of runs
SpecRuns == Init /\ [][NextRuns]_vars

----------------------------------------------------------------------------
(* CreditManager (src/src/opportunities/demo_opportunities.py)              *)
(*  - user_accounts is a dict from user ids to UserCredits records.        *)
(*  - datetime.now() reads the clock now, which advances with every call;  *)
(*    the two readings of create_user_account are taken as one.            *)
(*  - _record_transaction builds a CreditTransaction and logs it; nothing  *)
(*    keeps it, so it is not part of the state.                            *)

Emails == {"ann@acme.io", "bob@acme.io"}

\* line 80: user_id = f"user_{hash(email)}", the hash written as its argument
UserId(email) == "user_" \o email

\* the user ids callers pass: those of the emails and one no account has
UserIds == {UserId(e) : e \in Emails} \cup {"user_unknown"}

\* lines 54-64
CREDIT_COSTS ==
    [opportunity_report_download |-> 1, detailed_match_analysis |-> 2,
     contact_reveal |-> 3, custom_research_report |-> 5,
     competitor_intelligence |-> 3, market_trend_analysis |-> 2,
     supplier_contact_info |-> 2, event_networking_list |-> 1]

\* the actions callers pass: listed ones of cost 1, 2, 3 and 5, and one that
\* CREDIT_COSTS does not list
CreditActions ==
    {"opportunity_report_download", "detailed_match_analysis", "contact_reveal",
     "custom_research_report", "unlisted_action"}

\* lines 112, 123: self.CREDIT_COSTS.get(action, 1)
RequiredCredits(action) ==
    IF action \in DOMAIN CREDIT_COSTS THEN CREDIT_COSTS[action] ELSE 1

\* line 85: the free starter credits
StarterCredits == 3

\* lines 82-91: the account of a new user, created at time t
UserCredits(user_id, email, t) ==
    [user_id |-> user_id, email |-> email, credits_balance |-> StarterCredits,
     total_credits_purchased |-> StarterCredits, total_credits_used |-> 0,
     subscription_tier |-> "free", created_at |-> t, last_activity |-> t]

\* lines 77-100: user_accounts after create_user_account(email) at time t
CreateUserAccount(accounts, email, t) ==
    LET user_id == UserId(email) IN
    [u \in DOMAIN accounts \cup {user_id} |->
        IF u = user_id THEN UserCredits(user_id, email, t) ELSE accounts[u]]

\* the test with > in the place of >=
CheckSufficientCreditsStrict(accounts, user_id, action) ==
    IF user_id \notin DOMAIN accounts THEN FALSE
    ELSE accounts[user_id].credits_balance > RequiredCredits(action)

\* lines 106-114: what check_sufficient_credits(user_id, action) returns
CheckSufficientCredits(accounts, user_id, action) ==
    IF user_id \notin DOMAIN accounts THEN FALSE
    ELSE accounts[user_id].credits_balance >= RequiredCredits(action)

\* consume_credits without the test of line 125
ConsumeCreditsUnchecked(accounts, user_id, action, t) ==
    IF user_id \notin DOMAIN accounts
    THEN [result |-> FALSE, accounts |-> accounts]
    ELSE LET required == RequiredCredits(action) IN
         [result |-> TRUE,
          accounts |-> [accounts EXCEPT ![user_id] =
                           [@ EXCEPT !.credits_balance = @ - required,
                                     !.total_credits_used = @ + required,
                                     !.last_activity = t]]]

\* lines 116-139: what consume_credits(user_id, action) at time t returns,
\* and user_accounts after it
ConsumeCredits(accounts, user_id, action, t) ==
    IF user_id \notin DOMAIN accounts
    THEN [result |-> FALSE, accounts |-> accounts]
    ELSE LET required == RequiredCredits(action) IN
         IF accounts[user_id].credits_balance < required
         THEN [result |-> FALSE, accounts |-> accounts]
         ELSE [result |-> TRUE,
               accounts |-> [accounts EXCEPT ![user_id] =
                                [@ EXCEPT !.credits_balance = @ - required,
                                          !.total_credits_used = @ + required,
                                          !.last_activity = t]]]

\* a caller calls create_user_account(email)
CallCreateUserAccount ==
    /\ now < MaxClock
    /\ \E email \in Emails :
          /\ user_accounts' = CreateUserAccount(user_accounts, email, now + 1)
          /\ credit' = [op |-> "create", user_id |-> UserId(email), action |-> "",
                        result |-> TRUE, before |-> user_accounts]
    /\ now' = now + 1
    /\ UNCHANGED matcherVars

\* a caller calls check_sufficient_credits(user_id, action)
CallCheckSufficientCredits ==
    /\ now < MaxClock
    /\ \E user_id \in UserIds, action \in CreditActions :
          credit' = [op |-> "check", user_id |-> user_id, action |-> action,
                     result |-> CheckSufficientCredits(user_accounts, user_id, action),
                     before |-> user_accounts]
    /\ now' = now + 1
    /\ UNCHANGED user_accounts
    /\ UNCHANGED matcherVars

\* a caller calls consume_credits(user_id, action)
CallConsumeCredits ==
    /\ now < MaxClock
    /\ \E user_id \in UserIds, action \in CreditActions :
          LET r == ConsumeCredits(user_accounts, user_id, action, now + 1) IN
          /\ user_accounts' = r.accounts
          /\ credit' = [op |-> "consume", user_id |-> user_id, action |-> action,
                        result |-> r.result, before |-> user_accounts]
    /\ now' = now + 1
    /\ UNCHANGED matcherVars

NextCredits ==
    \/ CallCreateUserAccount
    \/ CallCheckSufficientCredits
    \/ CallConsumeCredits

\* one CreditManager and the calls made on it
SpecCredits == Init /\ [][NextCredits]_vars

----------------------------------------------------------------------------
(* Vocabulary of the properties *)

Returned == pc = "returned"

\* v is a number of [0.0, 1.0]
InRange(v) == v.t = "num" /\ 0 <= v.n /\ v.n <= 100

\* the scoring oracle failed: its call raised (an error or a timeout), or it
\* answered with text that is no JSON or with JSON that is no object
OracleFailed(resp) ==
    \/ resp.kind \in {"raise", "badjson"}
    \/ resp.kind = "json" /\ resp.doc.t # "dict"

\* the texts str(e) of the failures of a scoring call
FailureCauses ==
    {ConnectionError, TimeoutError,
     NoGetError(PyOther("list")), NoGetError(PyOther("null")), NoGetError(PyOther("str")),
     NoGetError(PyOther("int")), NoGetError(PyOther("float")), NoGetError(PyOther("bool")),
     CompareError(JNull), CompareError(JStr("")), CompareError(JList)}
    \cup {JsonDecodeError(text) : text \in BadTexts}

\* m is the record of a failed scoring of opportunity o
RecordsFailure(m, o) ==
    /\ m.opportunity_id = o.id
    /\ m.relevance_score = JNum(0)
    /\ \E cause \in FailureCauses : m.reasoning = JStr("Analysis unavailable: " \o cause)

\* the raw score of a scoring response (JAbsent when it holds none)
RawScore(resp) ==
    IF resp.kind = "json" /\ resp.doc.t = "dict"
    THEN Get(resp.doc.d, "relevance_score", JAbsent)
    ELSE JAbsent

\* the positions of the returned list that hold the Match of opportunity o
PositionsOf(o) == {j \in 1..Len(matches) : matches[j].opportunity_id = o.id}

\* the position of the opportunity of Match m in the catalog
CatalogPosition(m) ==
    CHOOSE k \in 1..Len(opportunities) : opportunities[k].id = m.opportunity_id

----------------------------------------------------------------------------
(* Properties *)

\* C1: every Match that score_opportunity_relevance returns has a
\* relevance_score within [0.0, 1.0], whatever the scoring oracle did (score
\* in range, above 1, below 0, NaN, missing, not a number, no content, an
\* error raised); so has every Match scored in a run of
\* find_matches_for_company and every Match of the list it builds and returns.
C1_ScoreWithinUnitRange ==
    /\ scorer.stage = "returned" => InRange(scorer.match.relevance_score)
    /\ \A k \in 1..Len(scored) : InRange(scored[k].match.relevance_score)
    /\ \A j \in 1..Len(matches) : InRange(matches[j].relevance_score)

\* a direct call answered with the raw score 1.5 has returned a Match of score 1.0
C1_Witness ==
    /\ scorer.stage = "returned"
    /\ RawScore(scorer.response) = JNum(150)
    /\ scorer.match.relevance_score = JNum(100)

\* C2: in a run of find_matches_for_company no error of the scoring of an
\* opportunity aborts the run: an exception reaches the caller from the
\* Profile Analyzer only (before any characterization exists), a run that
\* returns has scored every opportunity of the catalog, and the Match of an
\* opportunity whose oracle call failed carries the error in its reasoning.
C2_ScoringErrorNeverAbortsRun ==
    /\ pc = "raised" => company_analysis = NoAnalysis
    /\ Returned =>
         /\ Len(scored) = Len(opportunities)
         /\ \A k \in 1..Len(scored) :
               OracleFailed(scored[k].response) =>
                  RecordsFailure(scored[k].match, opportunities[k])

\* C3 as stated: the returned list holds a zero-score Match recording the
\* failure for every opportunity whose scoring failed.
C3_FailedOpportunityInReturnedList ==
    Returned =>
       \A k \in 1..Len(scored) :
          OracleFailed(scored[k].response) =>
             \E j \in PositionsOf(opportunities[k]) :
                RecordsFailure(matches[j], opportunities[k])

\* C3 amended: for every opportunity whose scoring failed the scorer produces
\* a zero-score Match recording the failure, and the returned list holds it
\* exactly when min_score <= 0.0 (the threshold filter drops it otherwise);
\* every opportunity the oracle scored with a number r of [0.0, 1.0] is in
\* the returned list at score r when r >= min_score.
C3_FailedOpportunityRecordedAndFiltered ==
    Returned =>
       \A k \in 1..Len(scored) :
          /\ OracleFailed(scored[k].response) =>
                /\ RecordsFailure(scored[k].match, opportunities[k])
                /\ (PositionsOf(opportunities[k]) # {}) <=> (min_score <= 0)
                /\ \A j \in PositionsOf(opportunities[k]) :
                      RecordsFailure(matches[j], opportunities[k])
          /\ (InRange(RawScore(scored[k].response))
                /\ RawScore(scored[k].response).n >= min_score) =>
                \E j \in PositionsOf(opportunities[k]) :
                   matches[j].relevance_score = RawScore(scored[k].response)

\* the oracle failed for the first opportunity and scored the second 0.8 and
\* the third 0.9; at the default threshold the run has returned the third and
\* the second, in this order, and no Match of the first
C3_Witness ==
    /\ Returned
    /\ min_score = 60
    /\ Len(scored) = 3
    /\ OracleFailed(scored[1].response)
    /\ RawScore(scored[2].response) = JNum(80)
    /\ RawScore(scored[3].response) = JNum(90)
    /\ Len(matches) = 2
    /\ matches[1].opportunity_id = opportunities[3].id
    /\ matches[1].relevance_score = JNum(90)
    /\ matches[2].opportunity_id = opportunities[2].id
    /\ matches[2].relevance_score = JNum(80)

\* C4: the list find_matches_for_company returns holds no Match of a score
\* below min_score, and each of its Matches is one of the scored Matches.
C4_NoMatchBelowThreshold ==
    Returned =>
       \A j \in 1..Len(matches) :
          /\ matches[j].relevance_score.t = "num"
          /\ matches[j].relevance_score.n >= min_score
          /\ \E k \in 1..Len(scored) : scored[k].match = matches[j]

\* a run has returned some Matches and has dropped a scored Match that was
\* below the threshold
C4_Witness ==
    /\ Returned
    /\ matches # <<>>
    /\ \E k \in 1..Len(scored) :
          /\ scored[k].match.relevance_score.n < min_score
          /\ PositionsOf(opportunities[k]) = {}

\* C5: the list find_matches_for_company returns is sorted descending by
\* relevance_score.
C5_SortedDescending ==
    Returned =>
       \A i \in 1..Len(matches) : \A j \in 1..Len(matches) :
          i < j => matches[i].relevance_score.n >= matches[j].relevance_score.n

\* a run has returned two Matches whose opportunities were scored in
\* ascending order of score
C5_Witness ==
    /\ Returned
    /\ Len(matches) >= 2
    /\ \E k \in 1..Len(scored) : \E l \in 1..Len(scored) :
          /\ k < l
          /\ scored[k].match.relevance_score.n < scored[l].match.relevance_score.n
          /\ PositionsOf(opportunities[k]) # {}
          /\ PositionsOf(opportunities[l]) # {}

\* the Matches of the scoring calls of the run, in the order of the calls
ScoredMatches == [k \in 1..Len(scored) |-> scored[k].match]

\* the raw scores the oracle gave in the run, in the order of the calls
RawScores3(a, b, c) ==
    /\ Len(scored) = 3
    /\ RawScore(scored[1].response) = JNum(a)
    /\ RawScore(scored[2].response) = JNum(b)
    /\ RawScore(scored[3].response) = JNum(c)

\* C6: the list find_matches_for_company returns holds exactly one Match for
\* each opportunity of the catalog whose Match has a score >= min_score and
\* nothing else (a score equal to min_score is kept); scores 0.9, 0.5, 0.75
\* at threshold 0.6 give the first and the third opportunity at 0.9 and 0.75,
\* in this order; scores 0.1, 0.2, 0.3 at threshold 0.6 give the empty list.
C6_ExactlyTheMatchesAtOrAboveThreshold ==
    Returned =>
       /\ Len(scored) = Len(opportunities)
       /\ \A k \in 1..Len(scored) :
             /\ scored[k].match.opportunity_id = opportunities[k].id
             /\ Cardinality(PositionsOf(opportunities[k])) =
                   IF scored[k].match.relevance_score.n >= min_score THEN 1 ELSE 0
             /\ \A j \in PositionsOf(opportunities[k]) : matches[j] = scored[k].match
       /\ \A j \in 1..Len(matches) :
             \E k \in 1..Len(opportunities) : j \in PositionsOf(opportunities[k])
       /\ (min_score = 60 /\ RawScores3(90, 50, 75)) =>
             /\ Len(matches) = 2
             /\ matches[1] = scored[1].match /\ matches[1].relevance_score = JNum(90)
             /\ matches[2] = scored[3].match /\ matches[2].relevance_score = JNum(75)
       /\ (min_score = 60 /\ RawScores3(10, 20, 30)) => matches = <<>>

\* the run of the first example has returned its two Matches
C6_Witness ==
    /\ Returned
    /\ min_score = 60
    /\ RawScores3(90, 50, 75)
    /\ Len(matches) = 2

\* C7: in the returned list, Matches of equal relevance_score are in the
\* relative order of their opportunities in the catalog.
C7_TiesKeepCatalogOrder ==
    Returned =>
       \A i \in 1..Len(matches) : \A j \in 1..Len(matches) :
          (i < j /\ matches[i].relevance_score = matches[j].relevance_score) =>
             CatalogPosition(matches[i]) < CatalogPosition(matches[j])

\* a run has returned a list in which two Matches of equal score follow a
\* Match of a higher score that was scored after the first of them
C7_Witness ==
    /\ Returned
    /\ Len(matches) = 3
    /\ matches[1].opportunity_id = opportunities[2].id
    /\ matches[2].opportunity_id = opportunities[1].id
    /\ matches[3].opportunity_id = opportunities[3].id
    /\ matches[2].relevance_score = matches[3].relevance_score

\* C8: the Match Ranker step (the filter of line 198, then the sort of line
\* 202) is what the run applies to its scored Matches, and it is idempotent:
\* applied with the same threshold to the list the run returned, it gives
\* this list again, same Matches in the same order.
C8_RankerIdempotent ==
    Returned =>
       /\ matches = RankMatches(ScoredMatches, min_score)
       /\ RankMatches(matches, min_score) = matches

\* a run has returned a list with two Matches of equal score and one of
\* another score
C8_Witness ==
    /\ Returned
    /\ Len(matches) = 3
    /\ \E i \in 1..2 : matches[i].relevance_score = matches[i + 1].relevance_score
    /\ \E i \in 1..2 : matches[i].relevance_score # matches[i + 1].relevance_score

\* C9: when the scoring oracle was called and its call raised, or its answer
\* could not be parsed (no JSON, or JSON that is no object),
\* score_opportunity_relevance does not raise: it returns a Match of the
\* opportunity's id with relevance_score 0.0 and the reasoning
\* 'Analysis unavailable: <cause>'.  It raises only before it calls the oracle.
C9_FailureGivesZeroScoreMatch ==
    /\ scorer.stage = "raised" => ~scorer.oracle_called
    /\ (scorer.stage \in {"returned", "raised"} /\ scorer.oracle_called
          /\ OracleFailed(scorer.response)) =>
             /\ scorer.stage = "returned"
             /\ RecordsFailure(scorer.match, scorer.opportunity)

\* a direct call whose oracle answered with text that is no JSON has returned
\* the Match recording the failure
C9_Witness ==
    /\ scorer.stage = "returned"
    /\ scorer.response = BadJson("[1, 2")
    /\ scorer.match.reasoning =
          JStr("Analysis unavailable: Expecting ',' delimiter: line 1 column 6 (char 5)")
    /\ scorer.match.relevance_score = JNum(0)

\* the relevance_score C10 states for a raw score: the number clamped into
\* [0.0, 1.0]; 1.0 for NaN, the value of max(0.0, min(1.0, NaN)) in Python;
\* 0.0 for a missing or null score and one that is no number
ExpectedScore(raw) ==
    CASE raw.t \in {"num", "int"} /\ raw.n > 100 -> JNum(100)
      [] raw.t \in {"num", "int"} /\ raw.n < 0 -> JNum(0)
      [] raw.t \in {"num", "int"} /\ raw.n >= 0 /\ raw.n <= 100 -> JNum(raw.n)
      [] raw.t = "nan" -> JNum(100)
      [] OTHER -> JNum(0)

\* C10: when the scoring oracle answers with a JSON object, the Match's
\* relevance_score is max(0.0, min(1.0, r)) for a numeric raw score r (1.0
\* above the range, 0.0 below it, r itself inside it) and 0.0 for a missing,
\* null or non-numeric raw score; the call returns in each of these cases.
C10_ClampedOrZero ==
    (scorer.stage \in {"returned", "raised"} /\ scorer.oracle_called
       /\ scorer.response.kind = "json" /\ scorer.response.doc.t = "dict") =>
          /\ scorer.stage = "returned"
          /\ scorer.match.relevance_score = ExpectedScore(RawScore(scorer.response))


----------------------------------------------------------------------------
(* Properties of analyze_company_profile *)

\* the analysis oracle was called in the direct call: the prompt was built
AnalysisOracleCalled ==
    /\ analyzer.stage \in {"returned", "raised"}
    /\ FailingAttrs(analyzer.profile) = {}

\* the analysis oracle failed: its call raised (an error or a timeout), or it
\* answered with text that is no JSON or with JSON that is no object
AnalysisFailed(resp) ==
    \/ resp.kind \in {"raise", "badjson"}
    \/ resp.kind = "json" /\ resp.doc.t # "dict"

\* the eight fields of a characterization
CharacterizationFields ==
    {"industry_focus", "business_stage", "target_customers", "growth_priorities",
     "technology_adoption", "geographic_scope", "key_capabilities",
     "partnership_interests"}

\* the values of the enumeration of an enum field, `unknown` among them
EnumValues(field) ==
    CASE field = "business_stage" ->
            {"startup", "growth", "established", "enterprise", "unknown"}
      [] field = "technology_adoption" -> {"low", "medium", "high", "unknown"}
      [] field = "geographic_scope" ->
            {"local", "regional", "national", "international", "unknown"}

EnumFields == {"business_stage", "technology_adoption", "geographic_scope"}

\* C11: when the analysis oracle fails or answers with malformed output
\* (text that is no JSON, or JSON that is no object), analyze_company_profile
\* does not propagate the failure: it returns a characterization whose
\* industry_focus is profile.industry and which carries an error marker.
C11_AnalysisFailureGivesProfileFallback ==
    (AnalysisOracleCalled /\ AnalysisFailed(analyzer.response)) =>
       /\ analyzer.stage = "returned"
       /\ analyzer.value.t = "dict"
       /\ Get(analyzer.value.d, "industry_focus", JAbsent) =
             analyzer.profile.attrs.industry
       /\ "error" \in DOMAIN analyzer.value.d

\* C12: analyze_company_profile never returns a characterization with a field
\* null or missing: whatever the oracle did, the value returned holds the
\* eight fields, each with a value.
C12_EveryFieldPopulated ==
    analyzer.stage = "returned" =>
       /\ analyzer.value.t = "dict"
       /\ \A f \in CharacterizationFields :
             /\ f \in DOMAIN analyzer.value.d
             /\ analyzer.value.d[f].t # "null"

\* C13: in every characterization analyze_company_profile returns, each enum
\* field (business_stage, technology_adoption, geographic_scope) holds a value
\* of its enumeration or exactly `unknown`.
C13_EnumFieldsInEnumeration ==
    analyzer.stage = "returned" =>
       /\ analyzer.value.t = "dict"
       /\ \A f \in EnumFields :
             /\ f \in DOMAIN analyzer.value.d
             /\ analyzer.value.d[f] \in {JStr(e) : e \in EnumValues(f)}

\* C14: analyze_company_profile returns a characterization and does not raise
\* for any profile it is given, also one whose fields are empty or missing.
C14_AnalyzerNeverRaises ==
    analyzer.stage # "raised"

----------------------------------------------------------------------------
(* Properties of the course of a run *)

\* the scoring call of entry k of the history timed out
TimedOut(k) == scored[k].response = Raises(TimeoutError)

\* C15: a scoring call that is slow or fails does not stall the batch: a call
\* that timed out has given a zero-score Match recording the failure, and
\* from every state with a scoring call outstanding, an answer arriving or
\* not, the run goes on to score every opportunity of the catalog and to
\* return.
C15_SlowCallDoesNotStallBatch ==
    /\ [](\A k \in 1..Len(scored) :
             TimedOut(k) => RecordsFailure(scored[k].match, opportunities[k]))
    /\ (oracle.outstanding = "scoring") ~>
          (Returned /\ Len(scored) = Len(opportunities))

\* the profile of the run has the eight attributes of a CompanyProfile, its
\* lists being lists
ValidProfile == profile.cls = "CompanyProfile" /\ FailingAttrs(profile) = {}

\* C16: for a valid CompanyProfile and a finite catalog, with every oracle
\* call returning or raising, find_matches_for_company hands its caller a
\* ranked list and never an exception.
C16_ValidProfileNeverRaises ==
    ValidProfile => pc # "raised"

\* C17: with an empty opportunity list find_matches_for_company returns the
\* empty list and raises no error, whatever the analysis oracle does.
C17_EmptyCatalogGivesEmptyList ==
    (pc \in {"returned", "raised"} /\ opportunities = <<>>) =>
       (Returned /\ matches = <<>>)

\* C18: every Match score_opportunity_relevance returns has a non-empty
\* reasoning text, whatever the scoring oracle did.
C18_ReasoningNonEmpty ==
    scorer.stage = "returned" =>
       (scorer.match.reasoning.t = "str" /\ scorer.match.reasoning.s # "")

\* C19: in a run the analysis call is made and has ended, and the
\* characterization exists, before the loop over the opportunities starts and
\* before any scoring call is made; while the analysis call is outstanding or
\* not yet made no scoring call has been made.
C19_AnalysisBeforeScoring ==
    /\ (pc \in {"loop", "scoring"} \/ oracle.outstanding = "scoring"
          \/ oracle.scoring > 0) =>
             /\ company_analysis # NoAnalysis
             /\ oracle.analysis = 1
             /\ oracle.outstanding # "analysis"
    /\ (oracle.outstanding = "analysis" \/ oracle.analysis = 0) =>
             /\ oracle.scoring = 0
             /\ scored = <<>>

\* the first scoring call of a run is outstanding, the characterization being
\* the fallback of an analysis call that raised
C19_Witness ==
    /\ pc = "scoring"
    /\ oracle.outstanding = "scoring"
    /\ oracle.scoring = 1
    /\ company_analysis.t = "dict"
    /\ "error" \in DOMAIN company_analysis.d

\* C20 as stated: no Match has been through the threshold filter while a
\* scoring call of the run is still to be made or outstanding.
C20_NoFilterBeforeAllScored ==
    Len(scored) > 0 =>
       (Len(scored) = Len(opportunities) /\ oracle.outstanding = "none")

\* C20 amended: the sort runs only after the scoring call of every
\* opportunity has ended (the run returns with every opportunity scored and
\* no call outstanding); the threshold filter is applied to each Match right
\* after its own scoring call has ended, while later opportunities are still
\* to be scored: during the loop the accumulator holds the Matches scored so
\* far that pass the threshold, in catalog order, unsorted.
C20_SortAfterAllScoring ==
    /\ pc \in {"loop", "scoring"} =>
          /\ matches = FilterRelevant(ScoredMatches, min_score)
          /\ Len(scored) = idx
    /\ Returned =>
          /\ Len(scored) = Len(opportunities)
          /\ oracle.outstanding = "none"
          /\ oracle.scoring = Len(opportunities)

\* the second scoring call is outstanding while the Match of the first
\* opportunity has already been dropped by the threshold filter
C20_Witness ==
    /\ pc = "scoring"
    /\ Len(scored) = 1
    /\ matches = <<>>
    /\ Len(opportunities) = 3

----------------------------------------------------------------------------
(* Properties of the calls and of the data of a run *)

\* the run has ended, by its return or by an exception
Ended == pc \in {"returned", "raised"}

\* C21: in a run over a catalog of N opportunities the analysis oracle is
\* called exactly once and the scoring oracle exactly once per opportunity,
\* N times in all and in the order of the catalog, whether the calls succeed
\* or fail.
C21_OneAnalysisCallAndOneScoringCallPerOpportunity ==
    (ValidProfile /\ Ended) =>
       /\ oracle.analysis = 1
       /\ oracle.scoring = Len(opportunities)
       /\ Len(scored) = Len(opportunities)
       /\ \A k \in 1..Len(scored) : scored[k].opportunity = opportunities[k]

\* C22: each opportunity of the catalog contributes at most one Match to the
\* accumulator of the run and that entry is written once: no two entries are
\* for the same opportunity, every entry is the Match that the scoring of its
\* opportunity produced and carries that opportunity's id, and no Match that
\* passed the threshold is missing.
C22_AccumulatorWrittenOncePerOpportunity ==
    pc \in {"loop", "scoring", "returned"} =>
       /\ \A i, j \in 1..Len(matches) :
             matches[i].opportunity_id = matches[j].opportunity_id => i = j
       /\ \A k \in 1..Len(scored) :
             scored[k].match.opportunity_id = scored[k].opportunity.id
       /\ \A i \in 1..Len(matches) : \E k \in 1..Len(scored) :
             /\ matches[i].opportunity_id = scored[k].opportunity.id
             /\ matches[i] = scored[k].match
       /\ \A k \in 1..Len(scored) :
             Keeps(scored[k].match, min_score) =>
                \E i \in 1..Len(matches) : matches[i] = scored[k].match

\* three opportunities got the same score and reasoning: the returned list
\* holds three Matches that differ by their opportunity id only
C22_Witness ==
    /\ Returned
    /\ Len(matches) = 3
    /\ scored[1].response = scored[2].response
    /\ scored[2].response = scored[3].response
    /\ {matches[i].opportunity_id : i \in 1..3} = {"opp1", "opp2", "opp3"}

\* C23: every Match of the accumulator and of the returned list carries the
\* company id of the profile the run was made for, and none keeps the
\* 'placeholder' id the scorer creates it with, whether its scoring succeeded
\* or failed.
C23_MatchesCarryTheCompanyId ==
    pc \in {"loop", "scoring", "returned"} =>
       \A i \in 1..Len(matches) :
          /\ matches[i].company_id = profile.attrs.company_name
          /\ matches[i].company_id # JStr("placeholder")

\* a run with threshold 0 has returned the Match of a failed scoring call and
\* the Match of a successful one, both with the company id of the profile
C23_Witness ==
    /\ Returned
    /\ min_score = 0
    /\ \E i, j \in 1..Len(matches) :
          /\ RecordsFailure(matches[i], opportunities[CatalogPosition(matches[i])])
          /\ matches[j].relevance_score = JNum(90)
          /\ matches[i].company_id = JStr("Acme")
          /\ matches[j].company_id = JStr("Acme")

\* C24: every Match is created with match_status 'pending' and keeps it
\* through the run: the Match a direct scorer call returns, the Matches the
\* run has scored, and the Matches the accumulator and the returned list hold.
C24_MatchStatusStaysPending ==
    /\ scorer.stage = "returned" => scorer.match.match_status = "pending"
    /\ \A k \in 1..Len(scored) : scored[k].match.match_status = "pending"
    /\ \A i \in 1..Len(matches) : matches[i].match_status = "pending"

\* a run has scored three opportunities, dropped one Match at the threshold
\* and returned the other two in an order that is not the catalog's
C24_Witness ==
    /\ Returned
    /\ Len(scored) = 3
    /\ Len(matches) = 2
    /\ CatalogPosition(matches[1]) > CatalogPosition(matches[2])

\* C25: a run leaves its inputs unchanged: from the call on, no step changes
\* the profile or the catalog (length, order, fields of the opportunities).
C25_InputsUnchanged ==
    [][pc # "idle" => (profile' = profile /\ opportunities' = opportunities)]_vars

\* a run over a catalog of three opportunities has returned, and the catalog
\* and the profile are those it was called with
C25_Witness ==
    /\ Returned
    /\ opportunities = Catalog(3)
    /\ profile = CompanyProfile("Acme", "technology software")
    /\ Len(scored) = 3

\* C26: the characterization of a run is not changed after the analysis step
\* has produced it: no step of the loop changes it, so every scoring call of
\* the run is made with the same characterization.
C26_CharacterizationNotMutated ==
    [][(pc = "loop" \/ pc = "scoring") => company_analysis' = company_analysis]_vars

\* the third scoring call of a run is outstanding and the characterization is
\* the one the analysis oracle gave
C26_Witness ==
    /\ pc = "scoring"
    /\ oracle.scoring = 3
    /\ Len(scored) = 2
    /\ company_analysis = PyDict(FullAnalysis)

\* what a caller compares of a returned list: per Match, the opportunity id,
\* the relevance score and the reasoning
Results(ms) ==
    [i \in 1..Len(ms) |-> <<ms[i].opportunity_id, ms[i].relevance_score,
                            ms[i].reasoning>>]

\* C27: the matcher holds no state from one run to the next: two runs made on
\* the same OpportunityMatcher with the same profile, catalog and threshold
\* and the same oracle responses end the same way and return the same
\* sequence of (opportunity id, relevance score, reasoning), whatever runs
\* were made on the matcher before the first of them or between them.
C27_SecondRunGivesSameResult ==
    (previous.set /\ Ended /\ SameArguments /\ SameResponses) =>
       /\ pc = previous.pc
       /\ error = previous.error
       /\ Returned => Results(matches) = Results(previous.matches)

\* a run over two opportunities has returned the two Matches of a
\* remembered run, the second opportunity first, with the same arguments and responses; another run was made
\* before the remembered one, and a run with other arguments or other
\* responses between the two
C27_Witness ==
    /\ previous.set /\ previous.before /\ previous.between
    /\ Returned
    /\ SameArguments /\ SameResponses
    /\ Len(scored) = 2
    /\ Len(matches) = 2
    /\ matches[1].opportunity_id = "opp2"
    /\ Results(matches) = Results(previous.matches)

----------------------------------------------------------------------------
(* Properties of CreditManager *)

\* the account the last call was about existed before the call
HadAccount == credit.user_id \in DOMAIN credit.before

\* C28: after any sequence of calls every account's credits_balance is >= 0,
\* and a consume_credits that returned True took from the account no more
\* than the balance it held.
C28_BalanceNeverNegative ==
    /\ \A u \in DOMAIN user_accounts : user_accounts[u].credits_balance >= 0
    /\ (credit.op = "consume" /\ credit.result) =>
          /\ HadAccount
          /\ credit.before[credit.user_id].credits_balance
                - user_accounts[credit.user_id].credits_balance
                   \in 0..credit.before[credit.user_id].credits_balance

\* an account of balance 1 has been asked for an action of cost 5 and keeps
\* its balance
C28_Witness ==
    /\ credit.op = "consume"
    /\ credit.action = "custom_research_report"
    /\ HadAccount
    /\ credit.before[credit.user_id].credits_balance = 1
    /\ user_accounts[credit.user_id].credits_balance = 1

\* C29: after any sequence of account creations and credit consumptions,
\* every account has credits_balance = total_credits_purchased -
\* total_credits_used, and no call makes the total_credits_used of an
\* account smaller than it was before the call.
C29_BalanceIsPurchasedMinusUsedAndUsedGrows ==
    \A u \in DOMAIN user_accounts :
       /\ user_accounts[u].credits_balance =
             user_accounts[u].total_credits_purchased
                - user_accounts[u].total_credits_used
       /\ u \in DOMAIN credit.before =>
             user_accounts[u].total_credits_used
                >= credit.before[u].total_credits_used

\* C30: consume_credits returns False and leaves every account unchanged
\* when the user id has no account or the balance is below the cost of the
\* action; an action CREDIT_COSTS does not list costs 1; and
\* check_sufficient_credits changes no account and returns True exactly when
\* a consume_credits called next for the same user and action returns True.
C30_RefusalChangesNothingAndCheckAgreesWithConsume ==
    /\ (credit.op = "consume" /\ ~HadAccount) =>
          (~credit.result /\ user_accounts = credit.before)
    /\ (credit.op = "consume" /\ HadAccount) =>
          LET held == credit.before[credit.user_id].credits_balance
              cost == CASE credit.action = "opportunity_report_download" -> 1
                        [] credit.action = "detailed_match_analysis" -> 2
                        [] credit.action = "contact_reveal" -> 3
                        [] credit.action = "custom_research_report" -> 5
                        [] OTHER -> 1
          IN /\ held < cost => (~credit.result /\ user_accounts = credit.before)
             /\ held >= cost =>
                   /\ credit.result
                   /\ user_accounts[credit.user_id].credits_balance = held - cost
    /\ credit.op = "check" =>
          /\ user_accounts = credit.before
          /\ credit.result =
                ConsumeCredits(user_accounts, credit.user_id, credit.action,
                               now + 1).result

\* check_sufficient_credits has answered True for an account whose balance
\* equals the cost of the action
C30_Witness ==
    /\ credit.op = "check"
    /\ credit.result
    /\ credit.action = "detailed_match_analysis"
    /\ HadAccount
    /\ user_accounts[credit.user_id].credits_balance = 2

====
